---- MODULE Spec2Model ----
(***************************************************************************)
(* Model of the Grid-aware Websites plugin for Cloudflare Workers          *)
(* (src/src/index.js, first module of the file: getLocation, the four KV   *)
(* helpers and the auto pipeline).                                         *)
(*                                                                         *)
(* JavaScript values that may be undefined, null, a string or a number are *)
(* tagged records [t, v]; a number keeps its decimal text in v, so that    *)
(* template literals and typeof can be computed as the code computes them. *)
(* Strings are TLA+ strings; includes and toLowerCase are computed on      *)
(* their characters.                                                       *)
(*                                                                         *)
(* Spec:    one request, any config, any earlier content of the KV stores. *)
(* SpecSeq: MaxInv requests one after the other, the stores empty at first.*)
(* SpecConc: MaxProcs invocations for one location in flight together.     *)
(* SpecTwin: two invocations called with debug values of their own.        *)
(* SpecFair: one invocation whose awaited calls all settle in the end.     *)
(* SpecLoc: getLocation called directly.                                   *)
(* SpecKv:  the four KV helpers called directly, and those of the older    *)
(*          variant of the page helpers (src/unnamed/part_006).            *)
(***************************************************************************)
EXTENDS Integers, Sequences, FiniteSets, TLC

VARIABLES
    config,     \* the config object passed to auto (fixed per deployment)
    kvData,     \* env.GAW_DATA_KV: key -> stored value
    kvPage,     \* env.GAW_PAGE_KV: key -> stored value
    inv,        \* per invocation of auto in flight: position and local variables
    prev,       \* what the invocation before the current one did
    pending,    \* number of requests that have not arrived yet
    traffic,    \* the population the arriving requests are drawn from
    locCall,    \* last direct call of getLocation: request, options, result
    kvCall      \* last direct call of a KV helper, or the expiry of an entry

vars == <<config, kvData, kvPage, inv, prev, pending, traffic, locCall, kvCall>>

------------------------------------------------------------------------------
(* Bounds *)

\* number of requests in a behaviour of SpecSeq
MaxInv == 2

\* number of concurrent invocations in a behaviour of SpecConc
MaxProcs == 2

\* the invocation of the runs of one request at a time
Procs == {1}

------------------------------------------------------------------------------
(* JavaScript values *)

Undef == [t |-> "undefined"]
Null == [t |-> "null"]
Str(s) == [t |-> "string", v |-> s]
Num(s) == [t |-> "number", v |-> s]
Arr(q) == [t |-> "array", v |-> q]

\* typeof x
TypeOf(x) == IF x.t = "null" THEN "object" ELSE x.t

\* ToBoolean(x) for the values above
Truthy(x) ==
    CASE x.t = "undefined" -> FALSE
      [] x.t = "null" -> FALSE
      [] x.t = "string" -> x.v /= ""
      [] x.t = "number" -> x.v \notin {"0", "NaN"}
      [] OTHER -> TRUE

\* `${x}`
Template(x) == IF x.t \in {"string", "number"} THEN x.v ELSE x.t

\* obj.f for a plain object modelled as a record of strings
Field(obj, f) == IF f \in DOMAIN obj THEN Str(obj[f]) ELSE Undef

\* String.prototype.includes
Includes(s, sub) ==
    \E i \in 1..(Len(s) - Len(sub) + 1) : SubSeq(s, i, i + Len(sub) - 1) = sub

UpperCase == <<"A", "B", "C", "D", "E", "F", "G", "H", "I", "J", "K", "L", "M",
               "N", "O", "P", "Q", "R", "S", "T", "U", "V", "W", "X", "Y", "Z">>
LowerCase == <<"a", "b", "c", "d", "e", "f", "g", "h", "i", "j", "k", "l", "m",
               "n", "o", "p", "q", "r", "s", "t", "u", "v", "w", "x", "y", "z">>

LowerChar(c) ==
    IF \E k \in 1..26 : UpperCase[k] = c
    THEN LowerCase[CHOOSE k \in 1..26 : UpperCase[k] = c]
    ELSE c

\* String.prototype.toLowerCase, character by character
toLowerCase(s) ==
    LET lower[k \in 0..Len(s)] ==
            IF k = 0 THEN "" ELSE lower[k - 1] \o LowerChar(SubSeq(s, k, k))
    IN  lower[Len(s)]

------------------------------------------------------------------------------
(* getLocation *)

NoCf == [absent |-> TRUE]

\* request.cf?.f
CfField(request, f) ==
    IF request.cf = NoCf THEN Undef ELSE request.cf[f]

\* the mutant reads latitude and longitude without the typeof guard and
\* reports success as soon as one of them is there
getLocationLoose(request, options) ==
    LET mode == IF options /= Undef /\ Truthy(options.mode)
                THEN options.mode ELSE Str("country")
        country == IF TypeOf(CfField(request, "country")) = "string"
                   THEN CfField(request, "country") ELSE Undef
        lat == CfField(request, "latitude")
        lon == CfField(request, "longitude")
    IN  IF mode = Str("latlon")
        THEN IF ~Truthy(lat) /\ ~Truthy(lon)
             THEN [status |-> Str("error")]
             ELSE [status |-> Str("success"), lat |-> lat, lon |-> lon]
        ELSE IF ~Truthy(country)
             THEN [status |-> Str("error")]
             ELSE [status |-> Str("success"), country |-> country]

\* the mutant takes any country that is not undefined, the empty string too
getLocationAnyCountry(request, options) ==
    LET mode == IF options /= Undef /\ Truthy(options.mode)
                THEN options.mode ELSE Str("country")
        country == CfField(request, "country")
    IN  IF mode = Str("latlon")
        THEN LET lat == IF TypeOf(CfField(request, "latitude")) = "string"
                        THEN CfField(request, "latitude") ELSE Undef
                 lon == IF TypeOf(CfField(request, "longitude")) = "string"
                        THEN CfField(request, "longitude") ELSE Undef
             IN  IF ~Truthy(lat) \/ ~Truthy(lon)
                 THEN [status |-> Str("error")]
                 ELSE [status |-> Str("success"), lat |-> lat, lon |-> lon]
        ELSE IF country = Undef
             THEN [status |-> Str("error")]
             ELSE [status |-> Str("success"), country |-> country]

\* getLocation of src/src/index.ts: no status on success, and latlon mode
\* falls back to the country
getLocationTs(request, options) ==
    LET mode == IF options /= Undef /\ Truthy(options.mode)
                THEN options.mode ELSE Str("country")
        country == CfField(request, "country")
        lat == CfField(request, "latitude")
        lon == CfField(request, "longitude")
    IN  IF mode = Str("latlon")
        THEN IF ~Truthy(lat) \/ ~Truthy(lon)
             THEN IF ~Truthy(country)
                  THEN [status |-> Str("error")]
                  ELSE [country |-> country]
             ELSE [lat |-> lat, lon |-> lon]
        ELSE IF ~Truthy(country)
             THEN [status |-> Str("error")]
             ELSE [country |-> country]

getLocation(request, options) ==
    LET mode == IF options /= Undef /\ Truthy(options.mode)
                THEN options.mode ELSE Str("country")
        country == IF TypeOf(CfField(request, "country")) = "string"
                   THEN CfField(request, "country") ELSE Undef
    IN  IF mode = Str("latlon")
        THEN LET lat == IF TypeOf(CfField(request, "latitude")) = "string"
                        THEN CfField(request, "latitude") ELSE Undef
                 lon == IF TypeOf(CfField(request, "longitude")) = "string"
                        THEN CfField(request, "longitude") ELSE Undef
             IN  IF ~Truthy(lat) \/ ~Truthy(lon)
                 THEN [status |-> Str("error")]
                 ELSE [status |-> Str("success"), lat |-> lat, lon |-> lon]
        ELSE IF ~Truthy(country)
             THEN [status |-> Str("error")]
             ELSE [status |-> Str("success"), country |-> country]

------------------------------------------------------------------------------
(* The world around auto: the origin site, requests, configs, upstream *)

Levels == {"low", "moderate", "high"}

\* The origin site: what fetch(url) answers when it answers.
OriginSite(url) ==
    CASE url = "https://a.test/" ->
            [contentType |-> Str("text/html; charset=utf-8"), body |-> "<p>home</p>",
             status |-> 200]
      [] url = "https://a.test/admin/x" ->
            [contentType |-> Str("TEXT/HTML"), body |-> "<p>admin</p>", status |-> 403]
      [] url = "https://a.test/empty" ->
            [contentType |-> Str("text/html"), body |-> "", status |-> 200]
      [] url = "https://a.test/logo.png" ->
            [contentType |-> Str("image/png"), body |-> "PNG", status |-> 200]
      [] OTHER ->
            [contentType |-> Null, body |-> "raw", status |-> 404]

Urls == {"https://a.test/", "https://a.test/admin/x", "https://a.test/empty",
         "https://a.test/logo.png", "https://a.test/raw"}

Cookies == {Null, Str("theme=dark"), Str("gaw-ignore=true"),
            Str("gaw-manual-view=low"), Str("gaw-manual-view=dark"),
            Str("theme=dark; gaw-ignore=true; gaw-manual-view=high")}

CfStr == [country |-> Str("DE"), latitude |-> Str("51.5"), longitude |-> Str("-0.1")]
CfNum == [country |-> Str("DE"), latitude |-> Num("1"), longitude |-> Num("2")]
CfCountry == [country |-> Str("DE"), latitude |-> Undef, longitude |-> Undef]

\* request.cf values seen by auto
CfAuto == {NoCf, CfCountry, CfStr, CfNum}

NoReq == [none |-> TRUE]

Requests == [url : Urls, cookie : Cookies, cf : CfAuto]

\* the requests for pages of the site, by visitors who are located
PageRequests ==
    [url : {"https://a.test/", "https://a.test/empty", "https://a.test/logo.png"},
     cookie : {Null, Str("gaw-ignore=true"), Str("gaw-manual-view=low")},
     cf : {CfCountry, CfStr}]

\* the requests of visitors of one page who are at one location
SameRequests ==
    {[url |-> "https://a.test/", cookie |-> Null, cf |-> CfCountry]}

\* the requests of the runs that compare debug values
TwinRequests ==
    [url : {"https://a.test/", "https://a.test/logo.png"},
     cookie : {Null, Str("gaw-manual-view=low")},
     cf : {NoCf, CfCountry}]

\* the values of config.debug
DebugValues == {"none", "full", "headers", "logs"}

\* the config objects auto is deployed with (dev mode is off)
Configs ==
    [contentType : {Undef, Arr(<<>>), Arr(<<"text/css", "Text/HTML">>)},
     ignoreRoutes : {Undef, Arr(<<"/admin", "/x">>)},
     ignoreGawCookie : {Undef},
     htmlChanges : {{}, {"low"}, Levels},
     locationType : {Undef, Str("country"), Str("latlon")},
     kvCacheData : BOOLEAN,
     kvCachePage : BOOLEAN,
     debug : {Undef, Str("full"), Str("headers"), Str("logs")}]

\* what gridIntensity.check resolves with
UpstreamAnswers ==
    {[status |-> "success", level |-> l, region |-> "DE"] : l \in Levels}
    \cup {[status |-> "success", region |-> "DE"], [status |-> "error"]}

\* JSON.stringify of a classification object
Stringify(obj) ==
    "{" \o "\"status\":\"" \o obj.status \o "\""
        \o (IF "level" \in DOMAIN obj THEN ",\"level\":\"" \o obj.level \o "\"" ELSE "")
        \o (IF "region" \in DOMAIN obj THEN ",\"region\":\"" \o obj.region \o "\"" ELSE "")
        \o "}"

\* let gridData = {}
EmptyObj == [x \in {} |-> ""]

\* JSON.parse of what fetchDataFromKv resolved with: a thrown SyntaxError is
\* the value ParseThrows
ParseThrows == [throws |-> TRUE]

JSONparse(cached) ==
    IF cached = Null THEN Null
    ELSE IF cached.v = "{}" THEN EmptyObj
    ELSE IF \E o \in UpstreamAnswers : Stringify(o) = cached.v
         THEN CHOOSE o \in UpstreamAnswers : Stringify(o) = cached.v
         ELSE ParseThrows


\* gridData?.status, gridData.level
GridField(g, f) == IF g = Null THEN Undef ELSE Field(g, f)

\* rewriter.transform(response).body for the rewriter of a level: the
\* rewriter of a level marks the page it is given, and an HTMLRewriter has
\* nothing to rewrite in an empty page, which stays empty
Transform(level, body) ==
    IF body = "" THEN "" ELSE "<!--" \o level \o "-->" \o body

------------------------------------------------------------------------------
(* auto: the values resolved at its entry, lines 165-178 *)

debug == IF Truthy(config.debug) THEN config.debug.v ELSE "none"
contentType == IF Truthy(config.contentType) THEN config.contentType.v ELSE <<"text/html">>
ignoreRoutes == IF Truthy(config.ignoreRoutes) THEN config.ignoreRoutes.v ELSE <<>>
ignoreGawCookie == IF Truthy(config.ignoreGawCookie) THEN config.ignoreGawCookie.v ELSE "gaw-ignore"
htmlChanges == config.htmlChanges
\* the mutant locates by country when locationType is not configured
locationTypeCountry ==
    IF Truthy(config.locationType) THEN config.locationType ELSE Str("country")

locationType == IF Truthy(config.locationType) THEN config.locationType ELSE Str("latlon")

\* debug === "full" || debug === "headers", for the debug of the invocation
HeadersOn(r) == r.debug \in {"full", "headers"}

\* debugHeaders = { ...debugHeaders, [k]: v } under debug full or headers
SetHdr(r, k, v) ==
    IF HeadersOn(r) THEN [r EXCEPT !.debugHeaders = (k :> v) @@ @] ELSE r

\* what an awaited call of the invocation settled with
NoObs == [x \in {} |-> ""]
Observe(r, op, answer) == [r EXCEPT !.obs = (op :> answer) @@ @]

NoHeaders == [x \in {} |-> ""]
NoResult == [none |-> TRUE]

Idle ==
    [pc |-> "idle", request |-> NoReq, debug |-> "none", obs |-> NoObs,
     debugHeaders |-> NoHeaders,
     gridData |-> EmptyObj, gawBody |-> "", result |-> NoResult, exit |-> "",
     fetches |-> 0, transforms |-> 0, checks |-> 0,
     dataReads |-> 0, dataWrites |-> 0, pageReads |-> 0, pageWrites |-> 0,
     pageKeys |-> {}, thrown |-> ""]

\* the routes of ignoreRoutes that url.includes, lines 197-202
MatchingRoutes(url) ==
    {k \in 1..Len(ignoreRoutes) : Includes(url, ignoreRoutes[k])}

\* the mutant locates every visitor by country
LocationCountry(r) == getLocation(r.request, [mode |-> Str("country")])

\* the location auto works with, lines 294-298
Location(r) == getLocation(r.request, [mode |-> locationType])
LocField(r, f) == IF f \in DOMAIN Location(r) THEN Location(r)[f] ELSE Undef
HasLatLon(r) == Truthy(LocField(r, "lat")) /\ Truthy(LocField(r, "lon"))

\* the key of the data namespace, lines 345-349 and 413-419
DataKey(r) ==
    IF HasLatLon(r)
    THEN Template(LocField(r, "lat")) \o "_" \o Template(LocField(r, "lon"))
    ELSE Template(LocField(r, "country"))

\* the mutant keys the page by its URL alone
PageKeyNoLevel(r) == r.request.url

\* the key of the page namespace, lines 436 and 511
PageKey(r) == Template(GridField(r.gridData, "level")) \o "_" \o r.request.url

\* return new Response(body, {...response, headers: {..., ...debugHeaders}}):
\* status and statusText of a Response are accessors of its prototype, the
\* spread copies no own property, and the new Response gets the default
\* status 200
Return(r, exit, body) ==
    [r EXCEPT !.pc = "done", !.exit = exit,
              !.result = [kind |-> "resolved", body |-> body, status |-> 200,
                          headers |-> r.debugHeaders]]

\* the mutant forgets the diagnostic header of the catch block
CatchNoHeader(r, stage) ==
    [r EXCEPT !.pc = "catch", !.fetches = @ + 1, !.thrown = stage]

\* the catch block up to its await, lines 534-547
Catch(r, stage) ==
    [SetHdr(r, "gaw-applied", "error-failed") EXCEPT
        !.pc = "catch", !.fetches = @ + 1, !.thrown = stage]

\* JSON.stringify(location), line 428
StringifyLocation(loc) ==
    "{" \o "\"status\":\"" \o loc.status.v \o "\""
        \o (IF "lat" \in DOMAIN loc THEN ",\"lat\":\"" \o loc.lat.v \o "\"" ELSE "")
        \o (IF "lon" \in DOMAIN loc THEN ",\"lon\":\"" \o loc.lon.v \o "\"" ELSE "")
        \o (IF "country" \in DOMAIN loc THEN ",\"country\":\"" \o loc.country.v \o "\"" ELSE "")
        \o "}"

\* the level whose rewriter lines 462-486 select, "none" when rewriter stays null
RewriterFor(r) ==
    LET level == GridField(r.gridData, "level")
    IN  IF level = Str("low") /\ "low" \in htmlChanges THEN "low"
        ELSE IF level = Str("moderate") /\ "moderate" \in htmlChanges THEN "moderate"
        ELSE IF level = Str("high") /\ "high" \in htmlChanges THEN "high"
        ELSE "none"

\* the mutant does not persist the page it transformed under debug full
TransformStageQuiet(r) ==
    LET rw == RewriterFor(r)
        body == OriginSite(r.request.url).body
    IN  IF rw /= "none"
        THEN LET g == [r EXCEPT !.transforms = @ + 1, !.gawBody = Transform(rw, body)]
             IN  IF config.kvCachePage /\ r.debug /= "full"
                 THEN [g EXCEPT !.pc = "pagePut"]
                 ELSE Return(g, "transformed", g.gawBody)
        ELSE Return(SetHdr(r, "gaw-applied", "no-grid-aware"), "no-grid-aware", body)

\* lines 460-533: select the rewriter, transform, persist or pass through
TransformStage(r) ==
    LET rw == RewriterFor(r)
        body == OriginSite(r.request.url).body
    IN  IF rw /= "none"
        THEN LET g == [r EXCEPT !.transforms = @ + 1, !.gawBody = Transform(rw, body)]
             IN  IF config.kvCachePage
                 THEN [g EXCEPT !.pc = "pagePut"]
                 ELSE Return(g, "transformed", g.gawBody)
        ELSE Return(SetHdr(r, "gaw-applied", "no-grid-aware"), "no-grid-aware", body)

\* lines 423-437: the headers of the auto path, then the page cache read
PageStage(r) ==
    LET h == SetHdr(SetHdr(SetHdr(r, "gaw-applied", "auto"),
                           "gaw-grid-data", Stringify(r.gridData)),
                    "gaw-location", StringifyLocation(Location(r)))
    IN  IF config.kvCachePage
        THEN [h EXCEPT !.pc = "pageGet"]
        ELSE TransformStage(h)

\* lines 369-388: no cached classification, the upstream call is issued
CheckStage(r) ==
    [SetHdr(r, "gaw-data-source", "api") EXCEPT !.pc = "check"]

\* the mutant takes every gaw-manual-view cookie for the low level
ManualLevelLow(cookies) ==
    IF Includes(cookies, "gaw-manual-view=") THEN "low" ELSE "none"

\* the mutant takes the high level when the cookie names none
ManualLevelDefaultHigh(cookies) ==
    IF Includes(cookies, "gaw-manual-view=low") THEN "low"
    ELSE IF Includes(cookies, "gaw-manual-view=moderate") THEN "moderate"
    ELSE "high"

\* the level named by a gaw-manual-view cookie, lines 260-266
ManualLevel(cookies) ==
    IF Includes(cookies, "gaw-manual-view=low") THEN "low"
    ELSE IF Includes(cookies, "gaw-manual-view=moderate") THEN "moderate"
    ELSE IF Includes(cookies, "gaw-manual-view=high") THEN "high"
    ELSE "none"

\* the mutant accepts every content type when the list is empty
isContentTypeValidByDefault(contentTypeHeader) ==
    \/ Len(contentType) = 0
    \/ \E k \in 1..Len(contentType) :
          Includes(toLowerCase(contentTypeHeader), toLowerCase(contentType[k]))

\* line 224
isContentTypeValid(contentTypeHeader) ==
    \E k \in 1..Len(contentType) :
        Includes(toLowerCase(contentTypeHeader), toLowerCase(contentType[k]))

\* lines 205-366 up to the next await: the guards on the origin response
Guards(r) ==
    LET response == OriginSite(r.request.url)
        contentTypeHeader == response.contentType
        requestCookies == r.request.cookie
    IN  IF ~Truthy(contentTypeHeader)
        THEN Return(SetHdr(r, "gaw-applied", "no-content-type"),
                    "no-content-type", response.body)
        ELSE IF ~isContentTypeValid(contentTypeHeader.v)
        THEN Return(SetHdr(r, "gaw-applied", "skip-content-type"),
                    "skip-content-type", response.body)
        ELSE IF Truthy(requestCookies) /\ Includes(requestCookies.v, "gaw-manual-view")
        THEN LET lvl == ManualLevel(requestCookies.v)
             IN  IF lvl = "none" \/ lvl \notin htmlChanges
                 THEN Catch(r, "transform")
                 ELSE Return([r EXCEPT !.transforms = @ + 1], "manual",
                             Transform(lvl, response.body))
        ELSE IF Truthy(requestCookies) /\ Includes(requestCookies.v, ignoreGawCookie)
        THEN Return(SetHdr(r, "gaw-applied", "skip-cookie"),
                    "skip-cookie", response.body)
        ELSE IF ~Truthy(LocField(r, "country")) /\ ~HasLatLon(r)
        THEN Return(SetHdr(r, "gaw-applied", "no-location-found"),
                    "no-location-found", response.body)
        ELSE LET h == SetHdr(r, "gaw-location",
                        IF HasLatLon(r)
                        THEN "lat: " \o Template(LocField(r, "lat"))
                             \o ", lon: " \o Template(LocField(r, "lon"))
                        ELSE Template(LocField(r, "country")))
             IN  IF config.kvCacheData
                 THEN [h EXCEPT !.pc = "dataGet"]
                 ELSE CheckStage(h)

------------------------------------------------------------------------------
(* auto: one action per await *)

Upd(i, r) == inv' = [inv EXCEPT ![i] = r]

\* the requests that arrive, by population
Arriving ==
    CASE traffic = "pages" -> PageRequests
      [] traffic = "same" -> SameRequests
      [] traffic = "twin" -> TwinRequests
      [] OTHER -> Requests

\* config.debug of the call: the config of the deployment, except in the
\* runs that compare calls with different debug values
DebugOf == IF traffic = "twin" THEN DebugValues ELSE {debug}

\* whether the invocation got as far as a classification, line 423
Resolved(r) ==
    r.exit \in {"page-cache", "transformed", "no-grid-aware"}
    \/ r.thrown \in {"pageGet", "pagePut"}

NoPrev == [none |-> TRUE]

\* what is remembered of an invocation once the next one starts
Summary(r) ==
    IF r.pc = "idle" THEN NoPrev
    ELSE [url |-> r.request.url, exit |-> r.exit, thrown |-> r.thrown,
          level |-> IF Resolved(r) THEN Template(GridField(r.gridData, "level")) ELSE "",
          transforms |-> r.transforms, result |-> r.result,
          wrote |-> IF "dataPut" \in DOMAIN r.obs /\ r.obs["dataPut"] = "resolved"
                    THEN DataKey(r) ELSE ""]

\* auto is called: lines 164-204, up to await fetch(request.url).  Every
\* matching route of ignoreRoutes issues a fetch of its own whose result is
\* dropped; the return inside the forEach callback leaves only the callback.
Call(i) ==
    /\ inv[i].pc \in {"idle", "done"}
    /\ pending > 0
    /\ pending' = pending - 1
    /\ prev' = Summary(inv[i])
    /\ \E req \in Arriving, d \in DebugOf :
          Upd(i, [Idle EXCEPT !.pc = "fetch", !.request = req, !.debug = d,
                              !.fetches = Cardinality(MatchingRoutes(req.url)) + 1])
    /\ UNCHANGED <<config, kvData, kvPage, traffic, locCall, kvCall>>

\* line 204 resolves
FetchOrigin(i) ==
    /\ inv[i].pc = "fetch"
    /\ Upd(i, Guards(Observe(inv[i], "fetch", "resolved")))
    /\ UNCHANGED <<config, kvData, kvPage, prev, pending, traffic, locCall, kvCall>>

\* line 204 rejects
FetchOriginThrows(i) ==
    /\ inv[i].pc = "fetch"
    /\ Upd(i, Catch(Observe(inv[i], "fetch", "rejected"), "fetch"))
    /\ UNCHANGED <<config, kvData, kvPage, prev, pending, traffic, locCall, kvCall>>

\* the mutant reads the data cache and calls the upstream all the same
DataGetNoHit(i) ==
    /\ inv[i].pc = "dataGet"
    /\ LET key == DataKey(inv[i])
           cachedData == IF key \in DOMAIN kvData THEN Str(kvData[key]) ELSE Null
           r == Observe(inv[i], "dataGet", Template(cachedData))
       IN  Upd(i, CheckStage([r EXCEPT !.dataReads = @ + 1]))
    /\ UNCHANGED <<config, kvData, kvPage, prev, pending, traffic, locCall, kvCall>>

\* fetchDataFromKv resolves and a value that does not parse ends the run in
\* the handler of line 534
DataGetParseFatal(i) ==
    /\ inv[i].pc = "dataGet"
    /\ LET key == DataKey(inv[i])
           cachedData == IF key \in DOMAIN kvData THEN Str(kvData[key]) ELSE Null
           r == Observe(inv[i], "dataGet", Template(cachedData))
           parsed == JSONparse(cachedData)
           g == [r EXCEPT !.dataReads = @ + 1,
                          !.gridData = IF parsed = ParseThrows THEN EmptyObj ELSE parsed]
       IN  IF parsed = ParseThrows
           THEN Upd(i, Catch(g, "parse"))
           ELSE IF Truthy(GridField(g.gridData, "status"))
           THEN Upd(i, PageStage(SetHdr(g, "gaw-data-source", "workers-kv")))
           ELSE Upd(i, CheckStage(g))
    /\ UNCHANGED <<config, kvData, kvPage, prev, pending, traffic, locCall, kvCall>>

\* fetchDataFromKv resolves, lines 346-366
DataGet(i) ==
    /\ inv[i].pc = "dataGet"
    /\ LET key == DataKey(inv[i])
           cachedData == IF key \in DOMAIN kvData THEN Str(kvData[key]) ELSE Null
           r == Observe(inv[i], "dataGet", Template(cachedData))
           parsed == JSONparse(cachedData)
           g == [r EXCEPT !.dataReads = @ + 1,
                          !.gridData = IF parsed = ParseThrows THEN EmptyObj ELSE parsed]
       IN  IF Truthy(GridField(g.gridData, "status"))
           THEN Upd(i, PageStage(SetHdr(g, "gaw-data-source", "workers-kv")))
           ELSE Upd(i, CheckStage(g))
    /\ UNCHANGED <<config, kvData, kvPage, prev, pending, traffic, locCall, kvCall>>

\* fetchDataFromKv rejects
DataGetThrows(i) ==
    /\ inv[i].pc = "dataGet"
    /\ Upd(i, Catch([Observe(inv[i], "dataGet", "rejected") EXCEPT
                        !.dataReads = @ + 1], "dataGet"))
    /\ UNCHANGED <<config, kvData, kvPage, prev, pending, traffic, locCall, kvCall>>

\* the mutant does not leave on an error status
CheckNoErrorExit(i) ==
    /\ inv[i].pc = "check"
    /\ \E answer \in UpstreamAnswers :
          LET g == [Observe(inv[i], "check", Stringify(answer)) EXCEPT
                        !.checks = @ + 1, !.gridData = answer]
          IN  IF config.kvCacheData
              THEN Upd(i, [g EXCEPT !.pc = "dataPut"])
              ELSE Upd(i, PageStage(g))
    /\ UNCHANGED <<config, kvData, kvPage, prev, pending, traffic, locCall, kvCall>>

\* the mutant calls the upstream a second time when it answers with an error
CheckRetrying(i) ==
    /\ inv[i].pc = "check"
    /\ \E answer \in UpstreamAnswers :
          LET g == [Observe(inv[i], "check", Stringify(answer)) EXCEPT
                        !.checks = @ + 1, !.gridData = answer]
          IN  IF answer.status = "error" /\ g.checks < 2
              THEN Upd(i, g)
              ELSE IF answer.status = "error"
              THEN Upd(i, Return(SetHdr(g, "gaw-applied", "error-grid-data"),
                                 "error-grid-data", OriginSite(g.request.url).body))
              ELSE IF config.kvCacheData
              THEN Upd(i, [g EXCEPT !.pc = "dataPut"])
              ELSE Upd(i, PageStage(g))
    /\ UNCHANGED <<config, kvData, kvPage, prev, pending, traffic, locCall, kvCall>>

\* gridIntensity.check resolves, lines 383-421
Check(i) ==
    /\ inv[i].pc = "check"
    /\ \E answer \in UpstreamAnswers :
          LET g == [Observe(inv[i], "check", Stringify(answer)) EXCEPT
                        !.checks = @ + 1, !.gridData = answer]
          IN  IF answer.status = "error"
              THEN Upd(i, Return(SetHdr(g, "gaw-applied", "error-grid-data"),
                                 "error-grid-data", OriginSite(g.request.url).body))
              ELSE IF config.kvCacheData
              THEN Upd(i, [g EXCEPT !.pc = "dataPut"])
              ELSE Upd(i, PageStage(g))
    /\ UNCHANGED <<config, kvData, kvPage, prev, pending, traffic, locCall, kvCall>>

\* gridIntensity.check rejects
CheckThrows(i) ==
    /\ inv[i].pc = "check"
    /\ Upd(i, Catch([Observe(inv[i], "check", "rejected") EXCEPT
                        !.checks = @ + 1], "check"))
    /\ UNCHANGED <<config, kvData, kvPage, prev, pending, traffic, locCall, kvCall>>

\* saveDataToKv resolves, lines 410-420
DataPut(i) ==
    /\ inv[i].pc = "dataPut"
    /\ kvData' = (DataKey(inv[i]) :> Stringify(inv[i].gridData)) @@ kvData
    /\ Upd(i, PageStage([Observe(inv[i], "dataPut", "resolved") EXCEPT
                            !.dataWrites = @ + 1]))
    /\ UNCHANGED <<config, kvPage, prev, pending, traffic, locCall, kvCall>>

\* saveDataToKv rejects
DataPutThrows(i) ==
    /\ inv[i].pc = "dataPut"
    /\ Upd(i, Catch([Observe(inv[i], "dataPut", "rejected") EXCEPT
                        !.dataWrites = @ + 1], "dataPut"))
    /\ UNCHANGED <<config, kvData, kvPage, prev, pending, traffic, locCall, kvCall>>

\* fetchPageFromKv resolves, lines 434-458
PageGet(i) ==
    /\ inv[i].pc = "pageGet"
    /\ LET key == PageKey(inv[i])
           cachedResponse == IF key \in DOMAIN kvPage THEN Str(kvPage[key]) ELSE Null
           r == Observe(inv[i], "pageGet", Template(cachedResponse))
           g == SetHdr([r EXCEPT !.pageReads = @ + 1, !.pageKeys = @ \cup {key}],
                       "gaw-page-source", "workers kv")
       IN  IF Truthy(cachedResponse)
           THEN Upd(i, Return(g, "page-cache", cachedResponse.v))
           ELSE Upd(i, TransformStage(g))
    /\ UNCHANGED <<config, kvData, kvPage, prev, pending, traffic, locCall, kvCall>>

\* the mutant reads the page cache once more when the read rejects
PageGetThrowsRetrying(i) ==
    /\ inv[i].pc = "pageGet"
    /\ LET r == [Observe(inv[i], "pageGet", "rejected") EXCEPT
                    !.pageReads = @ + 1,
                    !.pageKeys = @ \cup {PageKey(inv[i])}]
       IN  IF inv[i].pageReads = 0 THEN Upd(i, r) ELSE Upd(i, Catch(r, "pageGet"))
    /\ UNCHANGED <<config, kvData, kvPage, prev, pending, traffic, locCall, kvCall>>

\* fetchPageFromKv rejects
PageGetThrows(i) ==
    /\ inv[i].pc = "pageGet"
    /\ Upd(i, Catch([Observe(inv[i], "pageGet", "rejected") EXCEPT
                        !.pageReads = @ + 1,
                        !.pageKeys = @ \cup {PageKey(inv[i])}], "pageGet"))
    /\ UNCHANGED <<config, kvData, kvPage, prev, pending, traffic, locCall, kvCall>>

\* the mutant stores the page under its URL alone
PagePutUrlKey(i) ==
    /\ inv[i].pc = "pagePut"
    /\ kvPage' = (inv[i].request.url :> inv[i].gawBody) @@ kvPage
    /\ Upd(i, Return([Observe(inv[i], "pagePut", "resolved") EXCEPT
                         !.pageWrites = @ + 1,
                         !.pageKeys = @ \cup {PageKey(inv[i])}],
                     "transformed", inv[i].gawBody))
    /\ UNCHANGED <<config, kvData, prev, pending, traffic, locCall, kvCall>>

\* the mutant stores the body of the origin response
PagePutOrigin(i) ==
    /\ inv[i].pc = "pagePut"
    /\ kvPage' = (PageKey(inv[i]) :> OriginSite(inv[i].request.url).body) @@ kvPage
    /\ Upd(i, Return([Observe(inv[i], "pagePut", "resolved") EXCEPT
                         !.pageWrites = @ + 1,
                         !.pageKeys = @ \cup {PageKey(inv[i])}],
                     "transformed", inv[i].gawBody))
    /\ UNCHANGED <<config, kvData, prev, pending, traffic, locCall, kvCall>>

\* savePageToKv resolves, lines 506-518 and 73-87
PagePut(i) ==
    /\ inv[i].pc = "pagePut"
    /\ kvPage' = (PageKey(inv[i]) :> inv[i].gawBody) @@ kvPage
    /\ Upd(i, Return([Observe(inv[i], "pagePut", "resolved") EXCEPT
                         !.pageWrites = @ + 1,
                         !.pageKeys = @ \cup {PageKey(inv[i])}],
                     "transformed", inv[i].gawBody))
    /\ UNCHANGED <<config, kvData, prev, pending, traffic, locCall, kvCall>>

\* savePageToKv rejects
PagePutThrows(i) ==
    /\ inv[i].pc = "pagePut"
    /\ Upd(i, Catch([Observe(inv[i], "pagePut", "rejected") EXCEPT
                        !.pageWrites = @ + 1,
                        !.pageKeys = @ \cup {PageKey(inv[i])}], "pagePut"))
    /\ UNCHANGED <<config, kvData, kvPage, prev, pending, traffic, locCall, kvCall>>

\* the fetch of the catch block resolves, lines 547-555
Refetch(i) ==
    /\ inv[i].pc = "catch"
    /\ Upd(i, Return(Observe(inv[i], "refetch", "resolved"), "error-failed",
                     OriginSite(inv[i].request.url).body))
    /\ UNCHANGED <<config, kvData, kvPage, prev, pending, traffic, locCall, kvCall>>

\* the fetch of the catch block rejects: auto rejects
RefetchThrows(i) ==
    /\ inv[i].pc = "catch"
    /\ Upd(i, [Observe(inv[i], "refetch", "rejected") EXCEPT
                  !.pc = "done", !.exit = "rejected",
                  !.result = [kind |-> "rejected"]])
    /\ UNCHANGED <<config, kvData, kvPage, prev, pending, traffic, locCall, kvCall>>

NoLocCall == [none |-> TRUE]
NoKvCall == [fn |-> "none"]
EmptyKv == [x \in {} |-> ""]

\* what the stores can hold when a request arrives: entries written by
\* earlier invocations, and data entries that are not a classification
PageEntry(level, url) ==
    (level \o "_" \o url) :> Transform(level, OriginSite(url).body)

PagePreloads ==
    {EmptyKv,
     PageEntry("low", "https://a.test/") @@ PageEntry("moderate", "https://a.test/")
        @@ PageEntry("high", "https://a.test/") @@ PageEntry("high", "https://a.test/admin/x")}

DataPreloads ==
    {EmptyKv,
     ("DE" :> Stringify([status |-> "success", level |-> "low", region |-> "DE"]))
        @@ ("51.5_-0.1" :> Stringify([status |-> "success", level |-> "high", region |-> "DE"])),
     ("DE" :> "<html>") @@ ("51.5_-0.1" :> "{}")}

\* one request, any config, any earlier content of the stores
Init ==
    /\ config \in Configs
    /\ kvData \in IF config.kvCacheData THEN DataPreloads ELSE {EmptyKv}
    /\ kvPage \in IF config.kvCachePage THEN PagePreloads ELSE {EmptyKv}
    /\ inv = [i \in Procs |-> Idle]
    /\ prev = NoPrev
    /\ pending = 1
    /\ traffic = "any"
    /\ locCall = NoLocCall
    /\ kvCall = NoKvCall

\* the configs of the runs of several requests
ConfigsSeq ==
    {c \in Configs : /\ c.contentType = Undef
                     /\ c.debug \in {Undef, Str("full")}
                     /\ c.htmlChanges /= {}
                     /\ c.locationType /= Undef}

\* MaxInv requests one after the other, the stores empty at first
InitSeq ==
    /\ config \in ConfigsSeq
    /\ kvData = EmptyKv
    /\ kvPage = EmptyKv
    /\ inv = [i \in Procs |-> Idle]
    /\ prev = NoPrev
    /\ pending = MaxInv
    /\ traffic = "pages"
    /\ locCall = NoLocCall
    /\ kvCall = NoKvCall

Next ==
    \E i \in DOMAIN inv :
        \/ Call(i)
        \/ FetchOrigin(i)
        \/ FetchOriginThrows(i)
        \/ DataGet(i)
        \/ DataGetThrows(i)
        \/ Check(i)
        \/ CheckThrows(i)
        \/ DataPut(i)
        \/ DataPutThrows(i)
        \/ PageGet(i)
        \/ PageGetThrows(i)
        \/ PagePut(i)
        \/ PagePutThrows(i)
        \/ Refetch(i)
        \/ RefetchThrows(i)

Spec == Init /\ [][Next]_vars

\* the config of the runs of concurrent invocations: both caches on, a
\* transform for the low level only, the location by country
ConfigConc ==
    [contentType |-> Undef, ignoreRoutes |-> Undef, ignoreGawCookie |-> Undef,
     htmlChanges |-> {"low"}, locationType |-> Str("country"),
     kvCacheData |-> TRUE, kvCachePage |-> TRUE, debug |-> Undef]

\* MaxProcs invocations for one location in flight together, the stores
\* empty at first
InitConc ==
    /\ config = ConfigConc
    /\ kvData = EmptyKv
    /\ kvPage = EmptyKv
    /\ inv = [i \in 1..MaxProcs |-> Idle]
    /\ prev = NoPrev
    /\ pending = MaxProcs
    /\ traffic = "same"
    /\ locCall = NoLocCall
    /\ kvCall = NoKvCall

\* the configs of the runs that compare debug values
ConfigsTwin ==
    {[ConfigConc EXCEPT !.kvCacheData = d, !.kvCachePage = p] : d, p \in BOOLEAN}

\* two invocations, each called with a debug value of its own, any earlier
\* content of the stores
InitTwin ==
    /\ config \in ConfigsTwin
    /\ kvData \in IF config.kvCacheData THEN DataPreloads ELSE {EmptyKv}
    /\ kvPage \in IF config.kvCachePage THEN PagePreloads ELSE {EmptyKv}
    /\ inv = [i \in {1, 2} |-> Idle]
    /\ prev = NoPrev
    /\ pending = 2
    /\ traffic = "twin"
    /\ locCall = NoLocCall
    /\ kvCall = NoKvCall

SpecSeq == InitSeq /\ [][Next]_vars

SpecConc == InitConc /\ [][Next]_vars

SpecTwin == InitTwin /\ [][Next]_vars

\* the awaited call invocation i is suspended at settles, one way or the other
Settle(i) ==
    \/ FetchOriginThrows(i)
    \/ DataGetThrows(i)
    \/ CheckThrows(i)
    \/ DataPutThrows(i)
    \/ PageGetThrows(i)
    \/ PagePutThrows(i)
    \/ RefetchThrows(i)
    \/ FetchOrigin(i)
    \/ DataGet(i)
    \/ Check(i)
    \/ DataPut(i)
    \/ PageGet(i)
    \/ PagePut(i)
    \/ Refetch(i)

\* one request, with or without either cache, any debug value
InitFair ==
    /\ config \in ConfigsTwin
    /\ kvData \in IF config.kvCacheData THEN DataPreloads ELSE {EmptyKv}
    /\ kvPage \in IF config.kvCachePage THEN PagePreloads ELSE {EmptyKv}
    /\ inv = [i \in Procs |-> Idle]
    /\ prev = NoPrev
    /\ pending = 1
    /\ traffic = "twin"
    /\ locCall = NoLocCall
    /\ kvCall = NoKvCall

\* an invocation every awaited call of which settles in the end
SpecFair == InitFair /\ [][Next]_vars /\ \A i \in Procs : WF_vars(Settle(i))

------------------------------------------------------------------------------
(* getLocation called directly *)

LocRequests ==
    {[cf |-> NoCf]}
    \cup {[cf |-> [country |-> c, latitude |-> la, longitude |-> lo]] :
            c \in {Undef, Str(""), Str("DE")},
            la \in {Undef, Num("1"), Num("0"), Str("51.5")},
            lo \in {Undef, Num("2"), Num("0"), Str("-0.1")}}

LocOptions ==
    {Undef, [mode |-> Undef], [mode |-> Str("")], [mode |-> Str("country")],
     [mode |-> Str("latlon")], [mode |-> Str("invalid")]}

CallGetLocation ==
    /\ \E request \in LocRequests, options \in LocOptions :
          locCall' = [request |-> request, options |-> options,
                      result |-> getLocation(request, options),
                      resultTs |-> getLocationTs(request, options)]
    /\ UNCHANGED <<config, kvData, kvPage, inv, prev, pending, traffic, kvCall>>

\* auto(request, env, ctx) without a config: config = {}
DefaultConfig ==
    [contentType |-> Undef, ignoreRoutes |-> Undef, ignoreGawCookie |-> Undef,
     htmlChanges |-> {}, locationType |-> Undef, kvCacheData |-> FALSE,
     kvCachePage |-> FALSE, debug |-> Undef]

InitLoc ==
    /\ config = DefaultConfig
    /\ kvData = EmptyKv
    /\ kvPage = EmptyKv
    /\ inv = [i \in Procs |-> Idle]
    /\ prev = NoPrev
    /\ pending = 0
    /\ traffic = "any"
    /\ locCall = NoLocCall
    /\ kvCall = NoKvCall

NextLoc == CallGetLocation

SpecLoc == InitLoc /\ [][NextLoc]_vars

------------------------------------------------------------------------------
(* The KV helpers called directly *)

\* a settled promise
Resolves(v) == [kind |-> "resolved", value |-> v]
Rejects(e) == [kind |-> "rejected", value |-> e]

\* the store received no put
NoPut == [none |-> TRUE]

\* env is undefined, or an object whose bindings GAW_DATA_KV and GAW_PAGE_KV
\* are absent, a store that answers ("ok") or a store whose get and put
\* reject ("fails")
Envs ==
    {Undef, [GAW_DATA_KV |-> "absent", GAW_PAGE_KV |-> "absent"],
     [GAW_DATA_KV |-> "ok", GAW_PAGE_KV |-> "ok"],
     [GAW_DATA_KV |-> "fails", GAW_PAGE_KV |-> "fails"]}

KvKeys == {Str("DE"), Str("low_https://a.test/")}

\* the keys the older variant is called with: missing ones too
KvKeysLegacy == {Undef, Str(""), Str("low_https://a.test/")}

KvValues == {Stringify([status |-> "success", level |-> "low", region |-> "DE"])}

\* the response handed to the page helpers: missing, a page, an empty page
KvResponses == {Undef, [body |-> "<p>home</p>"], [body |-> ""]}

KvOptions ==
    {Undef} \cup [expirationTtl : {Undef, Str("1hour"), Num("7200"), Num("0")}]

\* the expirationTtl both save helpers compute, lines 74-78 and 108-112
ExpirationTtl(options, default) ==
    IF /\ options /= Undef
       /\ Truthy(options.expirationTtl)
       /\ TypeOf(options.expirationTtl) = "number"
    THEN options.expirationTtl
    ELSE default

\* store.get(key) of a store that answers
Get(store, key) == IF key.v \in DOMAIN store THEN Str(store[key.v]) ELSE Null

\* the mutant hands the body stream to the store without reading its text
savePageToKvBodyStream(env, key, response, options) ==
    LET expirationTtl == ExpirationTtl(options, Num("86400"))
    IN  IF response = Undef
        THEN [outcome |-> Rejects(Undef), put |-> NoPut]
        ELSE IF env = Undef \/ env.GAW_PAGE_KV = "absent"
        THEN [outcome |-> Rejects(Undef), put |-> NoPut]
        ELSE [outcome |-> IF env.GAW_PAGE_KV = "fails"
                          THEN Rejects(Undef) ELSE Resolves(Undef),
              put |-> [key |-> key.v, value |-> "[object ReadableStream]",
                       expirationTtl |-> expirationTtl]]

\* lines 73-87: every exception of the try block becomes Promise.reject()
savePageToKv(env, key, response, options) ==
    LET expirationTtl == ExpirationTtl(options, Num("86400"))
    IN  IF response = Undef
        THEN [outcome |-> Rejects(Undef), put |-> NoPut]
        ELSE IF env = Undef \/ env.GAW_PAGE_KV = "absent"
        THEN [outcome |-> Rejects(Undef), put |-> NoPut]
        ELSE [outcome |-> IF env.GAW_PAGE_KV = "fails"
                          THEN Rejects(Undef) ELSE Resolves(Undef),
              put |-> [key |-> key.v, value |-> response.body,
                       expirationTtl |-> expirationTtl]]

\* lines 95-97
fetchPageFromKv(env, key) ==
    IF env = Undef \/ env.GAW_PAGE_KV = "absent"
    THEN Rejects(Str("TypeError"))
    ELSE IF env.GAW_PAGE_KV = "fails"
    THEN Rejects(Str("Fetch error"))
    ELSE Resolves(Get(kvPage, key))

\* the mutant swallows what the store throws
saveDataToKvSwallowing(env, key, data, options) ==
    LET expirationTtl == ExpirationTtl(options, Num("3600"))
    IN  IF env = Undef \/ env.GAW_DATA_KV = "absent"
        THEN [outcome |-> Resolves(Undef), put |-> NoPut]
        ELSE [outcome |-> Resolves(Undef),
              put |-> [key |-> key.v, value |-> data,
                       expirationTtl |-> expirationTtl]]

\* lines 107-115
saveDataToKv(env, key, data, options) ==
    LET expirationTtl == ExpirationTtl(options, Num("3600"))
    IN  IF env = Undef \/ env.GAW_DATA_KV = "absent"
        THEN [outcome |-> Rejects(Str("TypeError")), put |-> NoPut]
        ELSE [outcome |-> IF env.GAW_DATA_KV = "fails"
                          THEN Rejects(Str("Storage error")) ELSE Resolves(Undef),
              put |-> [key |-> key.v, value |-> data,
                       expirationTtl |-> expirationTtl]]

\* lines 123-125
fetchDataFromKv(env, key) ==
    IF env = Undef \/ env.GAW_DATA_KV = "absent"
    THEN Rejects(Str("TypeError"))
    ELSE IF env.GAW_DATA_KV = "fails"
    THEN Rejects(Str("Fetch error"))
    ELSE Resolves(Get(kvData, key))

\* the objects the older variant of the page helpers resolves with
ErrorObject == [t |-> "object", status |-> "error"]
ErrorNoBinding ==
    [t |-> "object", status |-> "error",
     message |-> "GAW_PAGE_KV not found in environment. Please create it."]

\* the mutant lets a failure of the store reject
savePageToKvLegacyRejecting(env, key, response, options) ==
    IF env = Undef \/ ~Truthy(key) \/ response = Undef
    THEN [outcome |-> Resolves(ErrorObject), put |-> NoPut]
    ELSE IF env.GAW_PAGE_KV = "absent"
    THEN [outcome |-> Resolves(ErrorNoBinding), put |-> NoPut]
    ELSE [outcome |-> IF env.GAW_PAGE_KV = "fails"
                      THEN Rejects(Str("Storage error")) ELSE Resolves(Undef),
          put |-> [key |-> key.v, value |-> response.body,
                   expirationTtl |-> Undef]]

\* savePageToKv of the older variant (src/unnamed/part_006): failures
\* resolve with an error object, and the store is given no expirationTtl
savePageToKvLegacy(env, key, response, options) ==
    IF env = Undef \/ ~Truthy(key) \/ response = Undef
    THEN [outcome |-> Resolves(ErrorObject), put |-> NoPut]
    ELSE IF env.GAW_PAGE_KV = "absent"
    THEN [outcome |-> Resolves(ErrorNoBinding), put |-> NoPut]
    ELSE [outcome |-> IF env.GAW_PAGE_KV = "fails"
                      THEN Resolves(ErrorObject) ELSE Resolves(Undef),
          put |-> [key |-> key.v, value |-> response.body,
                   expirationTtl |-> Undef]]

\* fetchPageFromKv of the older variant
fetchPageFromKvLegacy(env, key) ==
    IF env = Undef \/ ~Truthy(key)
    THEN Resolves(ErrorObject)
    ELSE IF env.GAW_PAGE_KV = "absent"
    THEN Resolves(ErrorNoBinding)
    ELSE IF env.GAW_PAGE_KV = "fails"
    THEN Rejects(Str("Fetch error"))
    ELSE Resolves(Get(kvPage, key))

\* what a store holds once it received the put of a save helper
AfterPut(store, binding, put) ==
    IF put /= NoPut /\ binding = "ok"
    THEN (put.key :> put.value) @@ store
    ELSE store

BindingOf(env, ns) == IF env = Undef THEN "absent" ELSE env[ns]

CallSaveData ==
    /\ \E env \in Envs, key \in KvKeys, data \in KvValues, options \in KvOptions :
          LET res == saveDataToKv(env, key, data, options)
          IN  /\ kvCall' = [fn |-> "saveDataToKv", env |-> env, key |-> key,
                            arg |-> data, options |-> options,
                            outcome |-> res.outcome, put |-> res.put]
              /\ kvData' = AfterPut(kvData, BindingOf(env, "GAW_DATA_KV"), res.put)
    /\ UNCHANGED <<config, kvPage, inv, prev, pending, traffic, locCall>>

CallFetchData ==
    /\ \E env \in Envs, key \in KvKeys :
          kvCall' = [fn |-> "fetchDataFromKv", env |-> env, key |-> key,
                     outcome |-> fetchDataFromKv(env, key), put |-> NoPut]
    /\ UNCHANGED <<config, kvData, kvPage, inv, prev, pending, traffic, locCall>>

CallSavePage ==
    /\ \E env \in Envs, key \in KvKeys, response \in KvResponses,
          options \in KvOptions :
          LET res == savePageToKv(env, key, response, options)
          IN  /\ kvCall' = [fn |-> "savePageToKv", env |-> env, key |-> key,
                            arg |-> response, options |-> options,
                            outcome |-> res.outcome, put |-> res.put]
              /\ kvPage' = AfterPut(kvPage, BindingOf(env, "GAW_PAGE_KV"), res.put)
    /\ UNCHANGED <<config, kvData, inv, prev, pending, traffic, locCall>>

CallFetchPage ==
    /\ \E env \in Envs, key \in KvKeys :
          kvCall' = [fn |-> "fetchPageFromKv", env |-> env, key |-> key,
                     outcome |-> fetchPageFromKv(env, key), put |-> NoPut]
    /\ UNCHANGED <<config, kvData, kvPage, inv, prev, pending, traffic, locCall>>

CallSavePageLegacy ==
    /\ \E env \in Envs, key \in KvKeysLegacy, response \in KvResponses :
          LET res == savePageToKvLegacy(env, key, response, Undef)
          IN  /\ kvCall' = [fn |-> "savePageToKvLegacy", env |-> env, key |-> key,
                            arg |-> response, options |-> Undef,
                            outcome |-> res.outcome, put |-> res.put]
              /\ kvPage' = AfterPut(kvPage, BindingOf(env, "GAW_PAGE_KV"), res.put)
    /\ UNCHANGED <<config, kvData, inv, prev, pending, traffic, locCall>>

CallFetchPageLegacy ==
    /\ \E env \in Envs, key \in KvKeysLegacy :
          kvCall' = [fn |-> "fetchPageFromKvLegacy", env |-> env, key |-> key,
                     outcome |-> fetchPageFromKvLegacy(env, key), put |-> NoPut]
    /\ UNCHANGED <<config, kvData, kvPage, inv, prev, pending, traffic, locCall>>

\* the store drops an entry whose expirationTtl has run out
Expire ==
    /\ \/ \E k \in DOMAIN kvData :
             /\ kvData' = [x \in DOMAIN kvData \ {k} |-> kvData[x]]
             /\ kvPage' = kvPage
             /\ kvCall' = [fn |-> "expire", key |-> Str(k)]
       \/ \E k \in DOMAIN kvPage :
             /\ kvPage' = [x \in DOMAIN kvPage \ {k} |-> kvPage[x]]
             /\ kvData' = kvData
             /\ kvCall' = [fn |-> "expire", key |-> Str(k)]
    /\ UNCHANGED <<config, inv, prev, pending, traffic, locCall>>

InitKv == InitLoc

NextKv ==
    \/ CallSaveData
    \/ CallFetchData
    \/ CallSavePage
    \/ CallFetchPage
    \/ CallSavePageLegacy
    \/ CallFetchPageLegacy
    \/ Expire

SpecKv == InitKv /\ [][NextKv]_vars

------------------------------------------------------------------------------
(* Properties of auto *)

Done(i) == inv[i].pc = "done"

OriginBody(i) == OriginSite(inv[i].request.url).body

\* auto resolved with the body of the origin response
PassedThrough(i) ==
    /\ inv[i].result.kind = "resolved"
    /\ inv[i].result.body = OriginBody(i)

\* the content-type header of the origin response is missing, or contains
\* none of the accepted types whatever the case of the letters
ContentTypeRejected(i) ==
    LET h == OriginSite(inv[i].request.url).contentType
    IN  \/ h \in {Null, Str("")}
        \/ \A k \in 1..Len(contentType) :
              ~Includes(toLowerCase(h.v), toLowerCase(contentType[k]))

\* C1: when the origin response has no content-type header, or one that
\* contains none of the accepted content types (an empty list accepts
\* nothing), auto returns the origin body unmodified, invokes no transform
\* and serves no cached page.
C1_ContentTypeGuard ==
    \A i \in Procs :
        (Done(i) /\ ContentTypeRejected(i)) =>
            /\ inv[i].transforms = 0
            /\ inv[i].pageReads = 0
            /\ inv[i].exit /= "page-cache"
            /\ inv[i].thrown /= "fetch" => PassedThrough(i)

C1_Witness ==
    \E i \in Procs :
        /\ Done(i)
        /\ config.contentType = Arr(<<>>)
        /\ config.kvCachePage
        /\ config.htmlChanges = Levels
        /\ kvPage /= EmptyKv
        /\ inv[i].request.url = "https://a.test/"
        /\ inv[i].exit = "skip-content-type"
        /\ PassedThrough(i)

\* C2: when the request URL contains a substring of ignoreRoutes, auto
\* returns the origin response, applies no transform and makes no upstream
\* classification call.
C2_IgnoredRoute ==
    \A i \in Procs :
        (Done(i) /\ MatchingRoutes(inv[i].request.url) /= {}) =>
            /\ inv[i].transforms = 0
            /\ inv[i].checks = 0
            /\ inv[i].result.kind = "resolved" => PassedThrough(i)

\* C3: when the cookie header carries the opt-out cookie name, whatever else
\* it contains, auto applies no transform.
C3_OptOutCookie ==
    \A i \in Procs :
        (/\ Done(i)
         /\ inv[i].request.cookie /= Null
         /\ Includes(inv[i].request.cookie.v, ignoreGawCookie)) =>
            inv[i].transforms = 0

UpstreamError(i) ==
    /\ inv[i].checks > 0
    /\ inv[i].thrown /= "check"
    /\ inv[i].gridData = [status |-> "error"]

\* C5: when the upstream classification call returns status "error", auto
\* returns the origin body unmodified, with gaw-applied: error-grid-data when
\* debug is full or headers, and writes to neither KV namespace.
C5_UpstreamError ==
    \A i \in Procs :
        (Done(i) /\ UpstreamError(i)) =>
            /\ PassedThrough(i)
            /\ inv[i].transforms = 0
            /\ inv[i].dataWrites = 0
            /\ inv[i].pageWrites = 0
            /\ debug \in {"full", "headers"} =>
                  /\ "gaw-applied" \in DOMAIN inv[i].result.headers
                  /\ inv[i].result.headers["gaw-applied"] = "error-grid-data"

C5_Witness ==
    \E i \in Procs :
        /\ Done(i)
        /\ UpstreamError(i)
        /\ config.kvCacheData
        /\ config.kvCachePage
        /\ config.htmlChanges = Levels
        /\ debug = "full"
        /\ inv[i].dataReads = 1
        /\ PassedThrough(i)

\* two successive invocations for the same URL that resolved to the same
\* level, with page caching on and no failure of the page store
SameUrlSameLevel(i) ==
    /\ Done(i)
    /\ prev /= NoPrev
    /\ config.kvCachePage
    /\ prev.url = inv[i].request.url
    /\ inv[i].exit \in {"page-cache", "transformed", "no-grid-aware"}
    /\ prev.exit \in {"page-cache", "transformed", "no-grid-aware"}
    /\ prev.level = Template(GridField(inv[i].gridData, "level"))

\* the second invocation is a page-cache hit that returns what the first stored
AtMostOneTransform(i) ==
    /\ prev.transforms + inv[i].transforms <= 1
    /\ prev.transforms = 1 =>
          /\ inv[i].exit = "page-cache"
          /\ inv[i].result.body = prev.result.body

\* C6 as stated: two successive invocations for the same URL and level invoke
\* the transform at most once, the second being a page-cache hit.
C6_TransformOnce ==
    \A i \in Procs : SameUrlSameLevel(i) => AtMostOneTransform(i)

\* C6 amended: the same, provided the body the first invocation transformed
\* to is not empty (an empty cached body reads back as a miss).
C6_TransformOnceNonEmpty ==
    \A i \in Procs :
        (SameUrlSameLevel(i) /\ prev.result.body /= "") => AtMostOneTransform(i)

C6_Witness ==
    \E i \in Procs :
        /\ SameUrlSameLevel(i)
        /\ prev.transforms = 1
        /\ prev.exit = "transformed"
        /\ inv[i].transforms = 0
        /\ inv[i].exit = "page-cache"
        /\ inv[i].result.body = prev.result.body
        /\ inv[i].result.body /= OriginBody(i)

\* the level of the classification the invocation works with, as a template
\* literal prints it
LevelText(i) ==
    IF inv[i].gridData /= Null /\ "level" \in DOMAIN inv[i].gridData
    THEN inv[i].gridData.level ELSE "undefined"

\* C7: every key of the page namespace that auto reads or writes is
\* "{level}_{requestURL}" for the level resolved for that request, so a page
\* cached for one level is never returned to a request resolved to another:
\* a page served from the cache is the page transformed for the level of
\* the request it is served to.
C7_PageKeyHasLevel ==
    \A i \in Procs :
        /\ \A k \in inv[i].pageKeys : k = LevelText(i) \o "_" \o inv[i].request.url
        /\ (Done(i) /\ inv[i].exit = "page-cache") =>
              /\ LevelText(i) \in Levels
              /\ inv[i].result.body = "<!--" \o LevelText(i) \o "-->" \o OriginBody(i)

C7_Witness ==
    \E i \in Procs :
        /\ Done(i)
        /\ prev /= NoPrev
        /\ prev.url = inv[i].request.url
        /\ prev.exit = "transformed"
        /\ prev.level = "low"
        /\ LevelText(i) = "high"
        /\ inv[i].pageReads = 1
        /\ inv[i].exit = "transformed"
        /\ Cardinality(DOMAIN kvPage) = 2

------------------------------------------------------------------------------
(* Properties of auto: cache failures, status, manual view *)

\* C15: a rejected read of the data or page cache and a rejected write of
\* the data cache do not abort the pipeline: auto does not fall back to the
\* error path, makes the upstream call after a rejected data read, and
\* returns the transformed page when a transform is configured for the level.
C15_CacheFailureContinues ==
    \A i \in DOMAIN inv :
        (Done(i) /\ inv[i].thrown \in {"dataGet", "dataPut", "pageGet"}) =>
            /\ inv[i].exit \notin {"error-failed", "rejected"}
            /\ inv[i].thrown = "dataGet" => inv[i].checks = 1
            /\ (inv[i].thrown \in {"dataPut", "pageGet"}
                /\ RewriterFor(inv[i]) /= "none") =>
                  inv[i].result.body = Transform(RewriterFor(inv[i]), OriginBody(i))

\* C16: on a page-cache miss with kvCachePage on, auto resolves with the
\* transformed body whether the write of the page cache succeeds or fails.
C16_PersistNeverSurfaces ==
    \A i \in DOMAIN inv :
        (Done(i) /\ config.kvCachePage /\ inv[i].pageWrites = 1) =>
            /\ inv[i].result.kind = "resolved"
            /\ inv[i].result.body = inv[i].gawBody
            /\ inv[i].transforms = 1

\* C18: the status code of the response auto resolves with is the status
\* code of the origin response.
C18_StatusPreserved ==
    \A i \in DOMAIN inv :
        (Done(i) /\ inv[i].result.kind = "resolved") =>
            inv[i].result.status = OriginSite(inv[i].request.url).status

\* the origin answered, its content type is accepted, and the cookie header
\* names the manual view of level
ManualView(i, level) ==
    /\ Done(i)
    /\ inv[i].thrown /= "fetch"
    /\ ~ContentTypeRejected(i)
    /\ inv[i].request.cookie /= Null
    /\ Includes(inv[i].request.cookie.v, "gaw-manual-view=" \o level)

------------------------------------------------------------------------------
(* Properties of auto: debug, concurrent invocations *)

\* two invocations for the same request whose awaited calls settled alike
SameAnswers(i, j) ==
    /\ inv[i].request = inv[j].request
    /\ \A op \in DOMAIN inv[i].obs \cap DOMAIN inv[j].obs :
          inv[i].obs[op] = inv[j].obs[op]

\* the two invocations awaited the same calls, wrote the same and returned
\* the same body
SameControlFlow(i, j) ==
    /\ DOMAIN inv[i].obs = DOMAIN inv[j].obs
    /\ inv[i].exit = inv[j].exit
    /\ inv[i].thrown = inv[j].thrown
    /\ inv[i].fetches = inv[j].fetches
    /\ inv[i].checks = inv[j].checks
    /\ inv[i].transforms = inv[j].transforms
    /\ inv[i].dataReads = inv[j].dataReads
    /\ inv[i].dataWrites = inv[j].dataWrites
    /\ inv[i].pageReads = inv[j].pageReads
    /\ inv[i].pageWrites = inv[j].pageWrites
    /\ inv[i].pageKeys = inv[j].pageKeys
    /\ inv[i].gridData = inv[j].gridData
    /\ inv[i].gawBody = inv[j].gawBody
    /\ inv[i].result.kind = inv[j].result.kind
    /\ inv[i].result.kind = "resolved" =>
          /\ inv[i].result.body = inv[j].result.body
          /\ inv[i].result.status = inv[j].result.status

\* the response carries gaw-* headers only, and none unless debug is full
\* or headers
DiagnosticHeadersOnly(i) ==
    (Done(i) /\ inv[i].result.kind = "resolved") =>
        /\ \A h \in DOMAIN inv[i].result.headers : SubSeq(h, 1, 4) = "gaw-"
        /\ inv[i].debug \notin {"full", "headers"} =>
              inv[i].result.headers = NoHeaders

\* C17: two runs of auto for the same request and config that differ in
\* debug at most, and whose origin, KV stores and upstream answer alike,
\* await the same calls, read and write the same and return the same body;
\* they differ in gaw-* headers only, which a response carries only when
\* debug is full or headers.
C17_DebugNoControlFlow ==
    /\ \A i \in DOMAIN inv : \A j \in DOMAIN inv :
          (Done(i) /\ Done(j) /\ SameAnswers(i, j)) => SameControlFlow(i, j)
    /\ \A i \in DOMAIN inv : DiagnosticHeadersOnly(i)

C17_Witness ==
    /\ Done(1)
    /\ Done(2)
    /\ SameAnswers(1, 2)
    /\ inv[1].debug = "none"
    /\ inv[2].debug = "full"
    /\ inv[1].exit = "transformed"
    /\ inv[1].checks = 1
    /\ inv[2].pageWrites = 1
    /\ inv[1].result.headers = NoHeaders
    /\ "gaw-grid-data" \in DOMAIN inv[2].result.headers

AllDone == \A i \in DOMAIN inv : Done(i)

\* the invocation obtained a successful classification from the upstream
\* and its write of the data cache went through
Wrote(j) ==
    /\ inv[j].checks = 1
    /\ inv[j].dataWrites = 1
    /\ inv[j].thrown /= "dataPut"
    /\ GridField(inv[j].gridData, "status") = Str("success")

\* the entry of the data cache is the serialization of what j obtained
EntryOf(j) ==
    /\ DataKey(inv[j]) \in DOMAIN kvData
    /\ kvData[DataKey(inv[j])] = Stringify(inv[j].gridData)
    /\ kvData[DataKey(inv[j])] = inv[j].obs["check"]

------------------------------------------------------------------------------
(* Properties of auto: the data cache, the exits *)

\* the texts of the classifications the upstream answers with on success
SuccessTexts == {Stringify(o) : o \in {a \in UpstreamAnswers : a.status = "success"}}

\* what a read of the data cache resolved with when the entry holds a
\* classification with a status
HitTexts == {Stringify(o) : o \in UpstreamAnswers}

\* the read of the data cache resolved with no entry, with text that is not
\* JSON or with a value that has no status
DataMiss(i) ==
    /\ "dataGet" \in DOMAIN inv[i].obs
    /\ inv[i].obs["dataGet"] /= "rejected"
    /\ inv[i].obs["dataGet"] \notin HitTexts

\* the exits of the stages after the classification
LaterExits == {"error-grid-data", "page-cache", "transformed", "no-grid-aware"}

\* C21: a read of the data cache that resolves with null, with text that is
\* not JSON or with a value without status does not end the run: the
\* upstream is called exactly once, the run goes on with its answer, and a
\* successful answer is written back under the key that was read.
C21_MalformedCacheIsMiss ==
    \A i \in Procs :
        DataMiss(i) =>
            /\ inv[i].thrown \notin {"dataGet", "parse"}
            /\ inv[i].pc = "check" => inv[i].checks = 0
            /\ inv[i].pc \notin {"dataGet", "check"} => inv[i].checks = 1
            /\ (Done(i) /\ inv[i].thrown = "") =>
                  /\ inv[i].exit \in LaterExits
                  /\ Stringify(inv[i].gridData) = inv[i].obs["check"]
            /\ (Done(i) /\ "check" \in DOMAIN inv[i].obs
                        /\ inv[i].obs["check"] \in SuccessTexts) =>
                  /\ inv[i].dataWrites = 1
                  /\ ("dataPut" \in DOMAIN inv[i].obs
                        /\ inv[i].obs["dataPut"] = "resolved") =>
                        /\ DataKey(inv[i]) \in DOMAIN kvData
                        /\ kvData[DataKey(inv[i])] = inv[i].obs["check"]

C21_Witness ==
    /\ Done(1)
    /\ {"dataGet", "check", "dataPut"} \subseteq DOMAIN inv[1].obs
    /\ inv[1].obs["dataGet"] = "<html>"
    /\ inv[1].checks = 1
    /\ inv[1].dataWrites = 1
    /\ inv[1].obs["dataPut"] = "resolved"
    /\ kvData[DataKey(inv[1])] = inv[1].obs["check"]
    /\ inv[1].exit = "transformed"

\* the run got as far as the stages that work with the level of the
\* classification, lines 423-533
LevelResolved(i) ==
    /\ Done(i)
    /\ inv[i].thrown = ""
    /\ inv[i].exit \in {"page-cache", "transformed", "no-grid-aware"}

\* C22: when htmlChanges has no transform for the level of the
\* classification, auto returns the origin body unmodified, with gaw-applied
\* no-grid-aware under debug full or headers, transforms nothing and writes
\* nothing to the page cache, whatever the page cache holds and whether or
\* not kvCachePage is on.
C22_NoTransformUnmodified ==
    \A i \in Procs :
        (LevelResolved(i) /\ RewriterFor(inv[i]) = "none") =>
            /\ inv[i].exit = "no-grid-aware"
            /\ PassedThrough(i)
            /\ inv[i].transforms = 0
            /\ inv[i].pageWrites = 0
            /\ HeadersOn(inv[i]) =>
                  inv[i].result.headers["gaw-applied"] = "no-grid-aware"

\* the origin answered with an accepted content type and the cookies of the
\* request name neither a manual view nor the opt-out: line 294 is reached
ReachedLocation(i) ==
    LET response == OriginSite(inv[i].request.url)
        requestCookies == inv[i].request.cookie
    IN  /\ "fetch" \in DOMAIN inv[i].obs
        /\ inv[i].obs["fetch"] = "resolved"
        /\ Truthy(response.contentType)
        /\ isContentTypeValid(response.contentType.v)
        /\ ~(/\ Truthy(requestCookies)
              /\ \/ Includes(requestCookies.v, "gaw-manual-view")
                 \/ Includes(requestCookies.v, ignoreGawCookie))

\* what getLocation returns for the request in the configured mode
Located(i) == getLocation(inv[i].request, [mode |-> locationType])

NoCacheNoUpstream(i) ==
    /\ inv[i].checks = 0
    /\ inv[i].dataReads = 0
    /\ inv[i].dataWrites = 0
    /\ inv[i].pageReads = 0
    /\ inv[i].pageWrites = 0
    /\ inv[i].pageKeys = {}
    /\ DOMAIN inv[i].obs \subseteq {"fetch"}

\* C23: when getLocation returns the error marker, auto resolves with the
\* origin body unmodified, gaw-applied no-location-found under debug full
\* or headers, and makes no upstream call and no read or write of either
\* KV namespace.
C23_NoLocationExit ==
    \A i \in Procs :
        (/\ inv[i].pc /= "idle"
         /\ Located(i) = [status |-> Str("error")]
         /\ ReachedLocation(i)) =>
            /\ Done(i)
            /\ inv[i].exit = "no-location-found"
            /\ PassedThrough(i)
            /\ inv[i].transforms = 0
            /\ NoCacheNoUpstream(i)
            /\ HeadersOn(inv[i]) =>
                  inv[i].result.headers["gaw-applied"] = "no-location-found"

C23_Witness ==
    /\ Done(1)
    /\ ReachedLocation(1)
    /\ Located(1) = [status |-> Str("error")]
    /\ inv[1].request.cf = NoCf
    /\ config.kvCacheData
    /\ config.kvCachePage
    /\ kvData /= EmptyKv
    /\ kvPage /= EmptyKv
    /\ inv[1].debug = "full"
    /\ inv[1].result.body = "<p>home</p>"
    /\ inv[1].result.headers = ("gaw-applied" :> "no-location-found")

\* the key of the data namespace for the location of the request: the
\* country, or latitude and longitude joined by an underscore
LocationKey(i) ==
    LET loc == Located(i)
    IN  IF "lat" \in DOMAIN loc
        THEN loc.lat.v \o "_" \o loc.lon.v
        ELSE loc.country.v

\* the read of the data cache resolved with a classification that has a
\* status
DataHit(i) ==
    /\ "dataGet" \in DOMAIN inv[i].obs
    /\ inv[i].obs["dataGet"] \in HitTexts

\* the invocation before this one obtained a classification and wrote it
\* under the key of the location of this one
SecondForLocation(i) ==
    /\ prev /= NoPrev
    /\ prev.wrote /= ""
    /\ inv[i].pc \notin {"idle", "fetch", "dataGet"}
    /\ "dataGet" \in DOMAIN inv[i].obs
    /\ inv[i].obs["dataGet"] /= "rejected"
    /\ prev.wrote = LocationKey(i)

\* C24: with kvCacheData on, auto reads the data namespace under the country
\* or under "{lat}_{lon}" before any upstream call; a hit with a status
\* means no upstream call; a miss means exactly one, whose successful answer
\* is written as JSON under the same key; so the invocation that follows one
\* that wrote the classification of the same location makes no upstream call.
C24_DataCacheFirst ==
    \A i \in Procs :
        config.kvCacheData =>
            /\ (inv[i].pc = "check" \/ inv[i].checks >= 1) =>
                  /\ inv[i].dataReads = 1
                  /\ DataMiss(i)
            /\ ("dataGet" \in DOMAIN inv[i].obs
                /\ inv[i].obs["dataGet"] /= "rejected"
                /\ "dataPut" \notin DOMAIN inv[i].obs) =>
                  inv[i].obs["dataGet"] =
                      IF LocationKey(i) \in DOMAIN kvData
                      THEN kvData[LocationKey(i)] ELSE "null"
            /\ DataHit(i) =>
                  /\ inv[i].checks = 0
                  /\ inv[i].pc /= "check"
                  /\ inv[i].dataWrites = 0
            /\ (DataMiss(i) /\ inv[i].pc \notin {"dataGet", "check"}) =>
                  inv[i].checks = 1
            /\ ("dataPut" \in DOMAIN inv[i].obs
                /\ inv[i].obs["dataPut"] = "resolved") =>
                  /\ inv[i].obs["check"] \in SuccessTexts
                  /\ LocationKey(i) \in DOMAIN kvData
                  /\ kvData[LocationKey(i)] = inv[i].obs["check"]
            /\ SecondForLocation(i) =>
                  /\ DataHit(i)
                  /\ inv[i].checks = 0

C24_Witness ==
    /\ config.kvCacheData
    /\ Done(1)
    /\ prev /= NoPrev
    /\ prev.wrote = "51.5_-0.1"
    /\ prev.exit = "transformed"
    /\ SecondForLocation(1)
    /\ inv[1].dataReads = 1
    /\ inv[1].checks = 0
    /\ inv[1].exit \in {"transformed", "page-cache"}
    /\ Stringify(inv[1].gridData) = kvData["51.5_-0.1"]

\* how many awaits the invocation may still have before it, at most
Rank(r) ==
    CASE r.pc = "fetch" -> 7
      [] r.pc = "dataGet" -> 6
      [] r.pc = "check" -> 5
      [] r.pc = "dataPut" -> 4
      [] r.pc = "pageGet" -> 3
      [] r.pc = "pagePut" -> 2
      [] r.pc = "catch" -> 1
      [] OTHER -> 0

\* one upstream call, one read and one write of each namespace at most
BoundedCalls(i) ==
    /\ inv[i].checks <= 1
    /\ inv[i].dataReads <= 1
    /\ inv[i].dataWrites <= 1
    /\ inv[i].pageReads <= 1
    /\ inv[i].pageWrites <= 1

\* a step of the invocation starts it or brings it nearer to its end: no
\* await is gone through twice
NoRetry(i) ==
    inv'[i] /= inv[i] =>
        \/ inv[i].pc \in {"idle", "done"} /\ inv'[i].pc = "fetch"
        \/ Rank(inv'[i]) < Rank(inv[i])

\* C25: an invocation whose awaited calls all settle terminates; no await is
\* gone through twice, and an invocation makes at most one upstream call, at
\* most one read and one write of the data namespace and at most one read
\* and one write of the page namespace.
C25_Terminates ==
    /\ [](\A i \in Procs : BoundedCalls(i))
    /\ [][\A i \in Procs : NoRetry(i)]_vars
    /\ \A i \in Procs : (inv[i].pc \notin {"idle", "done"}) ~> Done(i)

C25_Witness ==
    /\ Done(1)
    /\ inv[1].checks = 1
    /\ inv[1].dataReads = 1
    /\ inv[1].dataWrites = 1
    /\ inv[1].pageReads = 1
    /\ inv[1].pageWrites = 1
    /\ inv[1].thrown = "pagePut"
    /\ inv[1].exit = "error-failed"
    /\ inv[1].fetches = 2

\* the request has a country but lacks latitude or longitude
CountryOnly(i) ==
    /\ TypeOf(CfField(inv[i].request, "country")) = "string"
    /\ Truthy(CfField(inv[i].request, "country"))
    /\ \/ CfField(inv[i].request, "latitude") = Undef
       \/ CfField(inv[i].request, "longitude") = Undef

C27_OneOriginFetch ==
    \A i \in Procs :
        /\ Done(i) => inv[i].fetches = IF inv[i].thrown = "" THEN 1 ELSE 2
        /\ inv[i].pc \notin {"idle", "done", "catch"} => inv[i].fetches = 1

\* C28: under debug full or headers the response carries gaw-page-source
\* only when its body was read from the page cache; the response that was
\* transformed after a miss does not carry it.
C28_PageSourceOnlyOnHit ==
    \A i \in Procs :
        (Done(i) /\ inv[i].result.kind = "resolved" /\ HeadersOn(inv[i])) =>
            /\ "gaw-page-source" \in DOMAIN inv[i].result.headers =>
                  /\ inv[i].exit = "page-cache"
                  /\ inv[i].result.body = inv[i].obs["pageGet"]
            /\ inv[i].exit = "transformed" =>
                  "gaw-page-source" \notin DOMAIN inv[i].result.headers

\* the entry under key is the page of some URL as the transform configured
\* for some level leaves it
TransformedEntry(key) ==
    \E L \in htmlChanges : \E U \in Urls :
        /\ key = L \o "_" \o U
        /\ kvPage[key] = Transform(L, OriginSite(U).body)

\* the exits that return the origin page, a manual view or a cached page
NonPersistingExits ==
    {"no-content-type", "skip-content-type", "manual", "skip-cookie",
     "no-location-found", "error-grid-data", "no-grid-aware", "page-cache"}

\* C29: every entry auto wrote to the page namespace, under "{L}_{U}", is
\* the body the transform configured for L makes of the origin page of U; a
\* run that returns the origin page, a manual view, a cached page or the
\* page of the error handler writes no entry.
C29_OnlyTransformedStored ==
    /\ \A key \in DOMAIN kvPage : TransformedEntry(key)
    /\ \A i \in Procs :
          /\ inv[i].exit \in NonPersistingExits => inv[i].pageWrites = 0
          /\ (inv[i].thrown /= "" /\ inv[i].thrown /= "pagePut") =>
                inv[i].pageWrites = 0
          /\ inv[i].pageWrites = 1 =>
                /\ inv[i].transforms = 1
                /\ RewriterFor(inv[i]) \in htmlChanges
                /\ inv[i].pageKeys = {RewriterFor(inv[i]) \o "_" \o inv[i].request.url}
                /\ inv[i].thrown = "" =>
                      kvPage[RewriterFor(inv[i]) \o "_" \o inv[i].request.url]
                          = Transform(RewriterFor(inv[i]), OriginBody(i))

C29_Witness ==
    /\ Done(1)
    /\ inv[1].exit = "manual"
    /\ inv[1].request.url = "https://a.test/"
    /\ prev /= NoPrev
    /\ prev.exit = "transformed"
    /\ prev.url = "https://a.test/"
    /\ prev.level = "high"
    /\ DOMAIN kvPage = {"high_https://a.test/"}
    /\ kvPage["high_https://a.test/"] = "<!--high--><p>home</p>"
    /\ inv[1].result.body = "<!--low--><p>home</p>"

\* the origin answered with an accepted content type and the cookie header
\* contains gaw-manual-view, but with none of the three levels after it or
\* with a level htmlChanges has no transform for
ManualViewWithoutTransform(i) ==
    LET response == OriginSite(inv[i].request.url)
        requestCookies == inv[i].request.cookie
    IN  /\ "fetch" \in DOMAIN inv[i].obs
        /\ inv[i].obs["fetch"] = "resolved"
        /\ Truthy(requestCookies)
        /\ Includes(requestCookies.v, "gaw-manual-view")
        /\ \A L \in Levels :
              Includes(requestCookies.v, "gaw-manual-view=" \o L) => L \notin htmlChanges
        /\ Truthy(response.contentType)
        /\ isContentTypeValid(response.contentType.v)

------------------------------------------------------------------------------
(* Properties of getLocation *)

Called == locCall /= NoLocCall

\* the mode getLocation works in
LatLonMode == locCall.options /= Undef /\ locCall.options.mode = Str("latlon")

\* C8: in country mode (options absent, mode "country", or any mode other
\* than "latlon") getLocation returns {status: "success", country} when
\* request.cf.country is present and not empty, and {status: "error"}
\* otherwise, also when the request has no cf.
C8_CountryMode ==
    (Called /\ ~LatLonMode) =>
        LET cf == locCall.request.cf
        IN  IF cf /= NoCf /\ cf.country \notin {Undef, Str("")}
            THEN locCall.result = [status |-> Str("success"), country |-> cf.country]
            ELSE locCall.result = [status |-> Str("error")]

C8_Witness ==
    /\ Called
    /\ locCall.options = [mode |-> Str("invalid")]
    /\ locCall.result = [status |-> Str("success"), country |-> Str("DE")]

\* C9: in latlon mode getLocation returns {status: "success", lat, lon} with
\* lat and lon equal to request.cf.latitude and request.cf.longitude whenever
\* both are present, for instance latitude 1 and longitude 2.
C9_LatLonPresent ==
    (/\ Called
     /\ LatLonMode
     /\ locCall.request.cf /= NoCf
     /\ locCall.request.cf.latitude /= Undef
     /\ locCall.request.cf.longitude /= Undef) =>
        locCall.result = [status |-> Str("success"),
                          lat |-> locCall.request.cf.latitude,
                          lon |-> locCall.request.cf.longitude]

\* C10: every value getLocation returns is the error marker with no location
\* field, a success with a country only, or a success with both lat and lon
\* only; in src/src/index.ts the success carries no status but the same holds
\* of its location fields.
C10_LocationShape ==
    Called =>
        LET r == locCall.result
            t == locCall.resultTs
        IN  /\ \/ r = [status |-> Str("error")]
               \/ /\ DOMAIN r = {"status", "country"}
                  /\ r.status = Str("success")
                  /\ Truthy(r.country)
               \/ /\ DOMAIN r = {"status", "lat", "lon"}
                  /\ r.status = Str("success")
                  /\ Truthy(r.lat)
                  /\ Truthy(r.lon)
            /\ \/ t = [status |-> Str("error")]
               \/ DOMAIN t = {"country"} /\ Truthy(t.country)
               \/ DOMAIN t = {"lat", "lon"} /\ Truthy(t.lat) /\ Truthy(t.lon)

C10_Witness ==
    /\ Called
    /\ LatLonMode
    /\ locCall.request.cf /= NoCf
    /\ locCall.request.cf.latitude = Str("51.5")
    /\ locCall.request.cf.longitude = Undef
    /\ locCall.request.cf.country = Str("DE")
    /\ locCall.result = [status |-> Str("error")]

------------------------------------------------------------------------------
(* Properties of the KV helpers *)

\* the last event was a call of fn that settled as kind
Settled(call, fn, kind) ==
    /\ call.fn = fn
    /\ call.outcome.kind = kind

NumberTtl(call) ==
    /\ call.options /= Undef
    /\ TypeOf(call.options.expirationTtl) = "number"

\* C12: the put of saveDataToKv carries expirationTtl 3600 and the put of
\* savePageToKv carries 86400 when no options or no numeric expirationTtl is
\* given, and carries options.expirationTtl itself whenever that is a
\* number.
C12_Ttl ==
    (kvCall.fn \in {"saveDataToKv", "savePageToKv"} /\ kvCall.put /= NoPut) =>
        kvCall.put.expirationTtl =
            IF NumberTtl(kvCall) THEN kvCall.options.expirationTtl
            ELSE IF kvCall.fn = "saveDataToKv" THEN Num("3600") ELSE Num("86400")

\* the call could not be served: env or its binding is missing, the store
\* rejects, or there is no response to read
GatewayFailure(call, ns) ==
    \/ call.env = Undef
    \/ call.env[ns] \in {"absent", "fails"}
    \/ call.fn = "savePageToKv" /\ call.arg = Undef

====
